---- MODULE Spec2Model ----
(***************************************************************************)
(* Model of frontend/src/App.js: the App component's selection state       *)
(* (weather, clickedInfo) driven by handleGlobeClick / handleCloseWeather, *)
(* SatelliteTracker's interval poller (fetchIssPosition), and the          *)
(* projection getVectorFromLatLon with its inverse in Sphere.handleClick.  *)
(* Every await in an async function is a suspension point; the code        *)
(* between two awaits runs as one atomic step on the single JS thread.     *)
(***************************************************************************)
EXTENDS Integers, Sequences, FiniteSets, TLC

\* ---- bounds ----
MaxClicks == 2      \* globe clicks explored
MaxTicks == 4       \* interval firings explored
MaxRadius == 2      \* sphere radii explored by the projection
MaxScale == 2       \* scale factors applied to a clicked point
NumCoords == 2      \* distinct clicked coordinates

\* ---- program constants ----
IssIntervalMs == 2000
\* the value of Math.acos outside [-1, 1] and of arithmetic on it
NaN == 9999

VARIABLES
    weather,        \* App: useState(null)
    clickedInfo,    \* App: useState({position: null, countryName: null})
    calls,          \* one entry per invocation of handleGlobeClick (its closure and position)
    tracker,        \* SatelliteTracker: lifecycle of the component instance
    timer,          \* SatelliteTracker: the interval handle of the effect
    now,            \* ms elapsed since the page was loaded
    nextFire,       \* time at which the interval fires next
    issPosition,    \* SatelliteTracker: useState({lat: 0, lon: 0})
    issFetch,       \* one entry per invocation of fetchIssPosition
    console,        \* number of console.error calls, per message
    geoPc,          \* projection round: which step comes next
    geoIn,          \* projection round: lat, lon, radius and scale factor k
    point,          \* the vector getVectorFromLatLon returned, event.point of the click
    latlon,         \* lat, lon Sphere.handleClick computes for point
    latlonScaled    \* lat, lon Sphere.handleClick computes for k * point

vars == <<weather, clickedInfo, calls, tracker, timer, now, nextFire, issPosition, issFetch, console,
          geoPc, geoIn, point, latlon, latlonScaled>>
appVars == <<weather, clickedInfo, calls>>
pollVars == <<tracker, timer, now, nextFire, issPosition, issFetch>>
geoVars == <<geoPc, geoIn, point, latlon, latlonScaled>>

\* ---- values ----
Null == [tag |-> "null"]
UnknownCountry == [tag |-> "Unknown Country"]
Coords == 1..NumCoords
\* the position vector Sphere.handleClick computes for the clicked coordinate
Position(c) == [tag |-> "position", coord |-> c]
\* the JSON body open-meteo returns to call t for coordinate c
WeatherData(c, t) == [tag |-> "weatherData", coord |-> c, call |-> t]
\* geoData.address.country returned to call t for coordinate c
Country(c, t) == [tag |-> "country", coord |-> c, call |-> t]
\* the body wheretheiss.at returns to fetch f
IssData(f) == [lat |-> f, lon |-> f]

WeatherOutcomes == {"ok", "fail"}
GeoOutcomes == {"country", "nocountry", "fail"}

nClicks == Len(calls)
nFetches == Len(issFetch)

InitComponents ==
    /\ weather = Null
    /\ clickedInfo = [position |-> Null, countryName |-> Null]
    /\ calls = <<>>
    /\ tracker = "rendered"
    /\ timer = "unset"
    /\ now = 0
    /\ nextFire = 0
    /\ issPosition = [lat |-> 0, lon |-> 0]
    /\ issFetch = <<>>
    /\ console = [m \in {"iss", "weather", "country"} |-> 0]

\* no projection round is under way
Init ==
    /\ InitComponents
    /\ geoPc = "idle"
    /\ geoIn = [lat |-> 0, lon |-> 0, radius |-> 1, k |-> 1]
    /\ point = [x |-> 0, y |-> 0, z |-> 0]
    /\ latlon = [lat |-> 0, lon |-> 0]
    /\ latlonScaled = [lat |-> 0, lon |-> 0]

Log(m) == console' = [console EXCEPT ![m] = @ + 1]

\* ======================= App =======================

\* handleGlobeClick up to its first await: reset clickedInfo, issue the
\* weather request.  wres is the outcome the request is going to have.
HandleGlobeClick(c, wres) ==
    /\ nClicks < MaxClicks
    /\ clickedInfo' = [position |-> Position(c), countryName |-> Null]
    /\ calls' = Append(calls, [coord |-> c, wstate |-> "pending", wres |-> wres,
                               gstate |-> "notIssued", gres |-> "none"])
    /\ UNCHANGED <<weather, console>>
    /\ UNCHANGED <<pollVars, geoVars>>

\* variant: the catch block stores a placeholder instead of null
WeatherStored_placeholder(wres, c, t) ==
    IF wres = "ok" THEN WeatherData(c, t) ELSE [tag |-> "Unknown weather"]

\* the value the first try/catch stores in weather
WeatherStored(wres, c, t) ==
    IF wres = "ok" THEN WeatherData(c, t) ELSE Null

\* variant: the reset of clickedInfo sits after the weather await
WeatherResolves_resetAfter(t, gres) ==
    /\ t \in 1..nClicks
    /\ calls[t].wstate = "pending"
    /\ weather' = WeatherStored(calls[t].wres, calls[t].coord, t)
    /\ IF calls[t].wres = "fail" THEN Log("weather") ELSE UNCHANGED console
    /\ calls' = [calls EXCEPT ![t].wstate = "resolved", ![t].gstate = "pending",
                              ![t].gres = gres]
    /\ clickedInfo' = [position |-> Position(calls[t].coord), countryName |-> Null]
    /\ UNCHANGED <<pollVars, geoVars>>

\* handleGlobeClick from the weather response to the second await:
\* setWeather(weatherData) or catch -> setWeather(null), then issue the
\* place-name request.  gres is the outcome that request is going to have.
WeatherResolves(t, gres) ==
    /\ t \in 1..nClicks
    /\ calls[t].wstate = "pending"
    /\ weather' = WeatherStored(calls[t].wres, calls[t].coord, t)
    /\ IF calls[t].wres = "fail" THEN Log("weather") ELSE UNCHANGED console
    /\ calls' = [calls EXCEPT ![t].wstate = "resolved", ![t].gstate = "pending",
                              ![t].gres = gres]
    /\ UNCHANGED clickedInfo
    /\ UNCHANGED <<pollVars, geoVars>>

\* variant: the else branch of the country test is missing
CountryNameStored_noElse(gres, c, t) ==
    IF gres = "country" THEN Country(c, t)
    ELSE IF gres = "fail" THEN UnknownCountry ELSE Null

\* the country name the second try/catch stores
CountryNameStored(gres, c, t) ==
    IF gres = "country" THEN Country(c, t) ELSE UnknownCountry

\* variant: the country name is stored with the position of the closure
\* instead of the functional update on the previous state
GeoResolves_replace(t) ==
    /\ t \in 1..nClicks
    /\ calls[t].gstate = "pending"
    /\ clickedInfo' = [position |-> Position(calls[t].coord),
                       countryName |-> CountryNameStored(calls[t].gres, calls[t].coord, t)]
    /\ IF calls[t].gres = "fail" THEN Log("country") ELSE UNCHANGED console
    /\ calls' = [calls EXCEPT ![t].gstate = "resolved"]
    /\ UNCHANGED weather
    /\ UNCHANGED <<pollVars, geoVars>>

\* handleGlobeClick from the place-name response to its end:
\* setClickedInfo(prev => ({...prev, countryName: ...}))
GeoResolves(t) ==
    /\ t \in 1..nClicks
    /\ calls[t].gstate = "pending"
    /\ clickedInfo' = [clickedInfo EXCEPT
           !.countryName = CountryNameStored(calls[t].gres, calls[t].coord, t)]
    /\ IF calls[t].gres = "fail" THEN Log("country") ELSE UNCHANGED console
    /\ calls' = [calls EXCEPT ![t].gstate = "resolved"]
    /\ UNCHANGED weather
    /\ UNCHANGED <<pollVars, geoVars>>

HandleCloseWeather ==
    /\ weather' = Null
    /\ clickedInfo' = [position |-> Null, countryName |-> Null]
    /\ UNCHANGED <<calls, console>>
    /\ UNCHANGED <<pollVars, geoVars>>

\* the JSX condition under which WeatherInfo is rendered
PanelShown == weather # Null /\ clickedInfo.position # Null

Click == \E c \in Coords, wres \in WeatherOutcomes : HandleGlobeClick(c, wres)
WeatherDone == \E t \in 1..MaxClicks, gres \in GeoOutcomes : WeatherResolves(t, gres)
GeoDone == \E t \in 1..MaxClicks : GeoResolves(t)
\* the close button exists only while the panel is rendered
Close == PanelShown /\ HandleCloseWeather

NextApp == Click \/ WeatherDone \/ GeoDone \/ Close

SpecApp == Init /\ [][NextApp]_vars

\* the lookups of a call complete (the network answers or times out)
FairSpecApp ==
    /\ SpecApp
    /\ \A t \in 1..MaxClicks : WF_vars(\E gres \in GeoOutcomes : WeatherResolves(t, gres))
    /\ \A t \in 1..MaxClicks : WF_vars(GeoResolves(t))

\* ======================= SatelliteTracker =======================

\* the effect body: define fetchIssPosition, setInterval(fetchIssPosition, 2000)
\* React runs it once, after the first commit of the component.
EffectMount ==
    /\ tracker = "rendered"
    /\ tracker' = "mounted"
    /\ timer' = "active"
    /\ nextFire' = now + IssIntervalMs
    /\ UNCHANGED <<now, issPosition, issFetch, console>>
    /\ UNCHANGED <<appVars, geoVars>>

\* the interval fires: fetchIssPosition runs up to its first await
IntervalTick ==
    /\ timer = "active"
    /\ nFetches < MaxTicks
    /\ now' = nextFire
    /\ nextFire' = nextFire + IssIntervalMs
    /\ issFetch' = Append(issFetch, "pending")
    /\ UNCHANGED <<tracker, timer, issPosition, console>>
    /\ UNCHANGED <<appVars, geoVars>>

\* fetchIssPosition after its awaits: setIssPosition({lat, lon})
IssFetchSucceeds(f) ==
    /\ f \in 1..nFetches
    /\ issFetch[f] = "pending"
    /\ issPosition' = IssData(f)
    /\ issFetch' = [issFetch EXCEPT ![f] = "ok"]
    /\ UNCHANGED <<tracker, timer, now, nextFire, console>>
    /\ UNCHANGED <<appVars, geoVars>>

\* variant: the catch block blanks the position
IssFetchFails_blank(f) ==
    /\ f \in 1..nFetches
    /\ issFetch[f] = "pending"
    /\ Log("iss")
    /\ issFetch' = [issFetch EXCEPT ![f] = "failed"]
    /\ issPosition' = [lat |-> 0, lon |-> 0]
    /\ UNCHANGED <<tracker, timer, now, nextFire>>
    /\ UNCHANGED <<appVars, geoVars>>

\* variant: the catch block stops the polling
IssFetchFails_stops(f) ==
    /\ f \in 1..nFetches
    /\ issFetch[f] = "pending"
    /\ Log("iss")
    /\ issFetch' = [issFetch EXCEPT ![f] = "failed"]
    /\ timer' = "cleared"
    /\ UNCHANGED <<tracker, now, nextFire, issPosition>>
    /\ UNCHANGED <<appVars, geoVars>>

\* fetchIssPosition's catch block: console.error only
IssFetchFails(f) ==
    /\ f \in 1..nFetches
    /\ issFetch[f] = "pending"
    /\ Log("iss")
    /\ issFetch' = [issFetch EXCEPT ![f] = "failed"]
    /\ UNCHANGED <<tracker, timer, now, nextFire, issPosition>>
    /\ UNCHANGED <<appVars, geoVars>>

\* variant: the effect returns no cleanup, the interval is never cleared
EffectCleanup_leak ==
    /\ tracker = "mounted"
    /\ tracker' = "unmounted"
    /\ UNCHANGED <<timer, now, nextFire, issPosition, issFetch, console>>
    /\ UNCHANGED <<appVars, geoVars>>

\* the effect's cleanup: clearInterval(interval)
\* React runs it when the component is torn down.
EffectCleanup ==
    /\ tracker = "mounted"
    /\ tracker' = "unmounted"
    /\ timer' = "cleared"
    /\ UNCHANGED <<now, nextFire, issPosition, issFetch, console>>
    /\ UNCHANGED <<appVars, geoVars>>

\* the state SatelliteTracker keeps about its polling
PollState == [lastValue |-> issPosition]

IssOk == \E f \in 1..MaxTicks : IssFetchSucceeds(f)
IssFail == \E f \in 1..MaxTicks : IssFetchFails(f)

NextPoller == EffectMount \/ IntervalTick \/ IssOk \/ IssFail \/ EffectCleanup

SpecPoller == Init /\ [][NextPoller]_vars

\* the browser fires an active interval
FairSpecPoller == SpecPoller /\ WF_vars(IntervalTick)

Next == NextApp \/ NextPoller

Spec == Init /\ [][Next]_vars

\* ======================= projection =======================
\* Angles are in degrees and restricted to the multiples of 90 degrees, where
\* sine and cosine are exactly -1, 0 or 1; vector components are integers.

Lats == {-90, 0, 90}
Lons == {-180, -90, 0, 90, 180}

Abs(n) == IF n < 0 THEN -n ELSE n

\* Math.sin((Math.PI / 180) * d)
SinDeg(d) ==
    CASE d % 360 = 0 -> 0
      [] d % 360 = 90 -> 1
      [] d % 360 = 180 -> 0
      [] d % 360 = 270 -> -1

\* Math.cos((Math.PI / 180) * d)
CosDeg(d) ==
    CASE d % 360 = 0 -> 1
      [] d % 360 = 90 -> 0
      [] d % 360 = 180 -> -1
      [] d % 360 = 270 -> 0

getVectorFromLatLon(lat, lon, radius) ==
    LET phi == 90 - lat
        theta == lon + 180
        x == -(radius * SinDeg(phi) * CosDeg(theta))
        z == radius * SinDeg(phi) * SinDeg(theta)
        y == radius * CosDeg(phi)
    IN  [x |-> x, y |-> y, z |-> z]

\* THREE.Vector3.length()
Length(p) ==
    LET sq == p.x * p.x + p.y * p.y + p.z * p.z
    IN  CHOOSE s \in 0..sq : s * s = sq

\* the quotient a / b of two numbers, b > 0 (exact on the grid)
Quotient(a, b) == CHOOSE q \in -Abs(a)..Abs(a) : q * b = a

\* (180 / Math.PI) * Math.acos(v)
AcosDeg(v) ==
    CASE v = 1 -> 0
      [] v = 0 -> 90
      [] v = -1 -> 180
      [] OTHER -> NaN

\* (180 / Math.PI) * Math.atan2(a, b), for a or b zero (zeros taken as +0)
Atan2Deg(a, b) ==
    CASE a = 0 /\ b >= 0 -> 0
      [] a = 0 /\ b < 0 -> 180
      [] a > 0 /\ b = 0 -> 90
      [] a < 0 /\ b = 0 -> -90

\* variant: the point is taken to lie on the unit sphere, y is not divided
\* by the length
LatLonOfPoint_unit(p) ==
    LET phi == AcosDeg(p.y)
        theta == Atan2Deg(p.x, p.z)
    IN  [lat |-> IF phi = NaN THEN NaN ELSE 90 - phi, lon |-> theta]

\* Sphere.handleClick: lat and lon of the clicked point
LatLonOfPoint(p) ==
    LET phi == IF Length(p) = 0 THEN NaN ELSE AcosDeg(Quotient(p.y, Length(p)))
        theta == Atan2Deg(p.x, p.z)
    IN  [lat |-> IF phi = NaN THEN NaN ELSE 90 - phi, lon |-> theta]

Scaled(p, k) == [x |-> k * p.x, y |-> k * p.y, z |-> k * p.z]

\* a projection round: a coordinate, a radius and a scale factor are given
InitGeo ==
    /\ InitComponents
    /\ geoPc = "coord"
    /\ geoIn \in [lat : Lats, lon : Lons, radius : 1..MaxRadius, k : 1..MaxScale]
    /\ point = [x |-> 0, y |-> 0, z |-> 0]
    /\ latlon = [lat |-> 0, lon |-> 0]
    /\ latlonScaled = [lat |-> 0, lon |-> 0]

\* a marker is placed: getVectorFromLatLon(lat, lon, radius)
ProjectCoordinate ==
    /\ geoPc = "coord"
    /\ point' = getVectorFromLatLon(geoIn.lat, geoIn.lon, geoIn.radius)
    /\ geoPc' = "point"
    /\ UNCHANGED <<geoIn, latlon, latlonScaled>>
    /\ UNCHANGED <<appVars, pollVars, console>>

\* Sphere.handleClick on that point
ClickPoint ==
    /\ geoPc = "point"
    /\ latlon' = LatLonOfPoint(point)
    /\ geoPc' = "clicked"
    /\ UNCHANGED <<geoIn, point, latlonScaled>>
    /\ UNCHANGED <<appVars, pollVars, console>>

\* Sphere.handleClick on the point k times as far from the centre
ClickScaledPoint ==
    /\ geoPc = "clicked"
    /\ latlonScaled' = LatLonOfPoint(Scaled(point, geoIn.k))
    /\ geoPc' = "done"
    /\ UNCHANGED <<geoIn, point, latlon>>
    /\ UNCHANGED <<appVars, pollVars, console>>

NextGeo == ProjectCoordinate \/ ClickPoint \/ ClickScaledPoint

SpecGeo == InitGeo /\ [][NextGeo]_vars

\* ======================= properties =======================

WeatherResolvedStep(t) == calls[t].wstate = "pending" /\ calls'[t].wstate = "resolved"
GeoResolvedStep(t) == calls[t].gstate = "pending" /\ calls'[t].gstate = "resolved"
InFlightFetches == {f \in 1..nFetches : issFetch[f] = "pending"}
IssFailedStep(f) == issFetch[f] = "pending" /\ issFetch'[f] = "failed"

\* C1: a dismissed selection (position null, which only handleCloseWeather
\* and the initial state produce) is fully cleared, whatever lookup results
\* arrive after the dismissal: weather and countryName are null as well.
CE_C1 ==
    clickedInfo.position = Null =>
        weather = Null /\ clickedInfo.countryName = Null

\* C2: a result that belongs to an earlier call of handleGlobeClick than the
\* most recent one never writes weather or countryName.
CE_C2 ==
    [][\A t \in 1..nClicks :
          (t < nClicks /\ (WeatherResolvedStep(t) \/ GeoResolvedStep(t)))
              => /\ weather' = weather
                 /\ clickedInfo'.countryName = clickedInfo.countryName]_vars

\* C3: the poller never has two fetches in flight at the same time.
CE_C3 == Cardinality(InFlightFetches) <= 1

\* C4: both arrival orders of the two lookups of a call are possible, which
\* needs the place-name request to be out while the weather request is still
\* pending, and the state reached once both have resolved is the one the two
\* results determine.
CE_C4 ==
    /\ \A t \in 1..nClicks :
          calls[t].wstate = "pending" => calls[t].gstate # "notIssued"
    /\ (nClicks = 1 /\ calls[1].gstate = "resolved" /\ clickedInfo.position # Null)
          => /\ weather = WeatherStored(calls[1].wres, calls[1].coord, 1)
             /\ clickedInfo = [position |-> Position(calls[1].coord),
                               countryName |-> CountryNameStored(calls[1].gres, calls[1].coord, 1)]

\* C5: a click leaves the selection at {position of the click, weather
\* absent, countryName absent}, and weather stays absent for as long as the
\* weather lookup of that click is pending.
CE_C5 ==
    /\ [][nClicks' = nClicks + 1 =>
            /\ clickedInfo' = [position |-> Position(calls'[nClicks'].coord),
                               countryName |-> Null]
            /\ weather' = Null]_vars
    /\ [](nClicks > 0 /\ calls[nClicks].wstate = "pending" => weather = Null)

CE_C8 ==
    timer # "unset" =>
        /\ nFetches >= 1
        /\ (nFetches < MaxTicks => nFetches = 1 + (now \div IssIntervalMs))

\* C9 (as claimed): when the place-name lookup of the most recent call ends
\* in failure or without a country, and no dismissal intervened, the state is
\* Populated with countryName = "Unknown Country".
CE_C9 ==
    [][(/\ nClicks > 0
        /\ GeoResolvedStep(nClicks)
        /\ calls[nClicks].gres \in {"fail", "nocountry"}
        /\ clickedInfo.position # Null)
          => /\ clickedInfo'.countryName = UnknownCountry
             /\ weather' # Null]_vars

\* C9 (amended): a call whose lookups complete is not stuck: its place-name
\* request is issued once its weather lookup has resolved, and a place-name
\* lookup that fails or finds no country leads to countryName = "Unknown
\* Country".
C9_NotStuck ==
    \A t \in 1..MaxClicks :
        /\ (t <= nClicks /\ calls[t].wstate = "pending")
              ~> (t <= nClicks /\ calls[t].gstate # "notIssued")
        /\ (t <= nClicks /\ calls[t].gstate = "pending"
                /\ calls[t].gres \in {"fail", "nocountry"})
              ~> (clickedInfo.countryName = UnknownCountry)

\* the most recent click found no country and shows the sentinel
W_C9 ==
    /\ nClicks > 0
    /\ calls[nClicks].gstate = "resolved"
    /\ calls[nClicks].gres = "nocountry"
    /\ clickedInfo.position = Position(calls[nClicks].coord)
    /\ clickedInfo.countryName = UnknownCountry

\* C10 (as claimed): once both lookups of the current selection have
\* completed, weather and countryName are both non-absent.
CE_C10 ==
    (/\ nClicks > 0
     /\ calls[nClicks].gstate = "resolved"
     /\ clickedInfo.position # Null)
        => weather # Null /\ clickedInfo.countryName # Null

\* C10 (amended): a place-name result always stores a non-absent country
\* name, the sentinel "Unknown Country" when the lookup failed, whereas a
\* failed weather lookup stores null.
C10_ErrorResults ==
    [][\A t \in 1..nClicks :
          /\ GeoResolvedStep(t) =>
                /\ clickedInfo'.countryName # Null
                /\ (calls[t].gres = "fail" => clickedInfo'.countryName = UnknownCountry)
          /\ (WeatherResolvedStep(t) /\ calls[t].wres = "fail") => weather' = Null]_vars

\* both lookups of the most recent click have failed
W_C10 ==
    /\ nClicks > 0
    /\ calls[nClicks].wres = "fail"
    /\ calls[nClicks].gstate = "resolved"
    /\ calls[nClicks].gres = "fail"
    /\ weather = Null
    /\ clickedInfo.countryName = UnknownCountry
    /\ console["weather"] >= 1 /\ console["country"] >= 1

\* C11: the click launches both lookups: the step that starts
\* handleGlobeClick issues the place-name request together with the weather
\* request, without waiting for the weather response.
CE_C11 ==
    [][nClicks' = nClicks + 1 =>
          /\ calls'[nClicks'].wstate = "pending"
          /\ calls'[nClicks'].gstate = "pending"]_vars

\* C14: a weather result leaves clickedInfo (position and countryName) as it
\* was, and a place-name result leaves weather and clickedInfo.position as
\* they were.
C14_OwnFieldOnly ==
    [][\A t \in 1..nClicks :
          /\ WeatherResolvedStep(t) => clickedInfo' = clickedInfo
          /\ GeoResolvedStep(t) =>
                /\ weather' = weather
                /\ clickedInfo'.position = clickedInfo.position]_vars

\* the place-name result of the first click arrived after a second click on
\* another coordinate, whose position is still the stored one
W_C14 ==
    /\ nClicks = 2
    /\ calls[1].coord # calls[2].coord
    /\ calls[1].gstate = "resolved"
    /\ calls[2].wstate = "pending"
    /\ clickedInfo.position = Position(calls[2].coord)
    /\ clickedInfo.countryName = CountryNameStored(calls[1].gres, calls[1].coord, 1)
    /\ weather = WeatherStored(calls[1].wres, calls[1].coord, 1)

SucceededFetches == {f \in 1..nFetches : issFetch[f] = "ok"}
LatestOf(S) == CHOOSE f \in S : \A g \in S : g <= f

\* C15: issPosition is the result of the most recently started fetch among
\* those that have completed successfully.
CE_C15 ==
    SucceededFetches # {} => issPosition = IssData(LatestOf(SucceededFetches))

\* C16: a failed fetch leaves the timer and its schedule alone, the next
\* firing is always one fixed interval after the last one, and while the
\* interval is active another attempt follows (up to the explored number of
\* firings) unless the poller is stopped.
C16_PollingContinues ==
    /\ [][\A f \in 1..nFetches :
             IssFailedStep(f) => timer' = timer /\ nextFire' = nextFire]_vars
    /\ [](timer = "active" => nextFire = now + IssIntervalMs)
    /\ \A n \in 0..(MaxTicks - 1) :
          (timer = "active" /\ nFetches = n)
              ~> (nFetches = n + 1 \/ timer = "cleared")

\* the first attempt failed and the second one was started one interval later
W_C16 ==
    /\ timer = "active"
    /\ nFetches = 2
    /\ issFetch[1] = "failed"
    /\ now = 2 * IssIntervalMs
    /\ nextFire = 3 * IssIntervalMs

\* C18: the panel (rendered under PanelShown, weather and position both
\* non-null) stays hidden after a dismissal until the next click: a step that
\* is not a click never sets position, so with position null the position
\* stays null and the panel hidden whatever lookup result the step applies.
C18_PanelHiddenUntilClick ==
    [][(clickedInfo.position = Null /\ nClicks' = nClicks)
          => clickedInfo'.position = Null /\ ~PanelShown']_vars

\* a weather result arrived after the dismissal and the panel is hidden
W_C18 ==
    /\ clickedInfo.position = Null
    /\ weather # Null
    /\ ~PanelShown

\* C17: the interval created at mount is released at teardown: the timer is
\* active exactly while the component is mounted, a torn-down component has
\* its timer cleared and starts no further fetch attempt, and a cleared timer
\* is never set or cleared again (one release per start).
C17_TimerReleased ==
    /\ [](timer = "active" <=> tracker = "mounted")
    /\ [](tracker = "unmounted" => timer = "cleared")
    /\ [][tracker = "unmounted" => nFetches' = nFetches /\ timer' = timer]_vars
    /\ [][timer' # timer =>
            \/ (timer = "unset" /\ timer' = "active")
            \/ (timer = "active" /\ timer' = "cleared")]_vars

\* torn down after two attempts, one of them still in flight
W_C17 ==
    /\ tracker = "unmounted"
    /\ timer = "cleared"
    /\ nFetches = 2
    /\ InFlightFetches # {}
    /\ nextFire <= MaxTicks * IssIntervalMs

\* the same meridian: longitudes equal up to a full turn
SameLon(a, b) == a # NaN /\ b # NaN /\ (a - b) % 360 = 0

\* C12: away from the poles, converting a coordinate to a point with
\* getVectorFromLatLon and converting the point back with the click handler
\* yields the coordinate again, for every radius.
CE_C12 ==
    (geoPc \in {"clicked", "done"} /\ geoIn.lat \notin {-90, 90})
        => /\ latlon.lat = geoIn.lat
           /\ SameLon(latlon.lon, geoIn.lon)

\* C13: the lat and lon the click handler computes for k * p are those it
\* computes for p.
C13_ScaleInvariant ==
    geoPc = "done" => latlonScaled = latlon

\* a point at distance 2 on the equator and its double were both converted
W_C13 ==
    /\ geoPc = "done"
    /\ geoIn.k = 2
    /\ point = [x |-> 0, y |-> 0, z |-> -2]
    /\ latlon = [lat |-> 0, lon |-> 180]
    /\ latlonScaled = latlon
====
